---- MODULE Spec2Model ----
(***************************************************************************)
(* Family-graph storage and query layer of the family-tree server          *)
(* (src/src/server/src/database.ts) with the routes that call it           *)
(* (src/src/server/src/server.ts).                                         *)
(*                                                                         *)
(* The persons table is a sequence of rows in rowid order (the order in    *)
(* which SELECT ... FROM persons enumerates them).  Ids, parentId and      *)
(* spouseId values are integers: the ids '1' and 's1' of the seed rows,    *)
(* one id per millisecond clock value for `person-${Date.now()}`, and two  *)
(* values that are no id: NULL and the sentinel 'SPOUSE'.                  *)
(***************************************************************************)
EXTENDS Integers, Sequences, FiniteSets, TLC

VARIABLES store, now, last, logged, data, isDefaultRoot, error, pending

\* The state of the server: the persons table, the last clock value that went
\* into an id, the last request served, and whether activity_logs holds an
\* entry (nothing modelled here reads what the entries say)
svars == <<store, now, last, logged>>

\* The state of the client (App): the tree on display, whether it was fetched
\* without a rootId, and whether the error screen is up
cvars == <<data, isDefaultRoot, error>>

\* The requests the server has begun and not yet answered, one per slot, each
\* with the position it has reached in its function
vars == <<store, now, last, logged, data, isDefaultRoot, error, pending>>

\* ---------------------------------------------------------------- bounds
\* Largest value of the millisecond clock Date.now() the model lets pass.
MaxClock == 2

\* Largest number of requests the server is working on at the same time.
MaxInFlight == 2

\* ------------------------------------------------------------ id encoding
NULL == 0
SPOUSE == -1
ID_1 == 1
ID_s1 == 2
PersonId(t) == 2 + t

ClockValues == 1..MaxClock
AllIds == {ID_1, ID_s1} \cup {PersonId(t) : t \in ClockValues}

\* The descriptive fields of a row (name, gender, birthDate, ...) are written
\* and read together; the model keeps the name for all of them.  The seed
\* rows carry two different names (transliterated here); requests carry the
\* first.
Name_1 == "Jahangir Eskandari"
Name_s1 == "Fatemeh Eskandari"
Names == {Name_1}

Relationships == {"CHILD", "SPOUSE", "SIBLING", "PARENT", "COUSIN"}

\* What a POST /api/persons/add body may lack: nothing, one of the four
\* members the route destructures, or one of the descriptive fields of
\* personData that the table declares NOT NULL
RouteChecked == {"personData", "relationship", "relativeToId", "user"}
RequiredColumns == {"name", "gender", "birthDate"}
MissingFields == {"none"} \cup RouteChecked \cup RequiredColumns

\* ------------------------------------------------------------- the table
Row(id, name, parentId, spouseId) ==
    [id |-> id, name |-> name, parentId |-> parentId, spouseId |-> spouseId]

Ids(s) == {s[i].id : i \in 1..Len(s)}

\* SELECT * FROM persons WHERE id = ? yields a row (Has) or undefined
Has(s, id) == id \in Ids(s)

Get(s, id) == s[CHOOSE i \in 1..Len(s) : s[i].id = id]

\* UPDATE persons SET parentId = v WHERE id = ?
SetParent(s, id, v) ==
    [i \in 1..Len(s) |-> IF s[i].id = id THEN [s[i] EXCEPT !.parentId = v] ELSE s[i]]

\* UPDATE persons SET spouseId = v WHERE id = ?
SetSpouse(s, id, v) ==
    [i \in 1..Len(s) |-> IF s[i].id = id THEN [s[i] EXCEPT !.spouseId = v] ELSE s[i]]

\* UPDATE persons SET name = ?, ... WHERE id = ?
SetName(s, id, v) ==
    [i \in 1..Len(s) |-> IF s[i].id = id THEN [s[i] EXCEPT !.name = v] ELSE s[i]]

\* UPDATE persons SET parentId = NULL WHERE parentId = ?
OrphanChildren(s, id) ==
    [i \in 1..Len(s) |-> IF s[i].parentId = id THEN [s[i] EXCEPT !.parentId = NULL] ELSE s[i]]

\* DELETE FROM persons WHERE id = ?
DeleteRow(s, id) == SelectSeq(s, LAMBDA r : r.id # id)

\* INSERT INTO persons (id, name, ...): parentId and spouseId start NULL
InsertRow(s, id, name) == Append(s, Row(id, name, NULL, NULL))

\* rel?.parentId || null, rel?.spouseId || null for the seed relationships
SeedStore ==
    << Row(ID_1, Name_1, NULL, ID_s1),
       Row(ID_s1, Name_s1, NULL, NULL) >>

\* ------------------------------------------------------------- addPerson
\* The switch on the relationship, applied to the table after the INSERT.
\* (variant: the write of the new row's spouseId is left out)
LinkSpouse_OneWay(s, newId, relTo) ==
    SetSpouse(SetParent(s, newId, SPOUSE), relTo, newId)

\* (variant: the new row is not marked 'SPOUSE')
LinkSpouse_NoSentinel(s, newId, relTo) ==
    SetSpouse(SetSpouse(s, relTo, newId), newId, relTo)

LinkSpouse(s, newId, relTo) ==
    SetSpouse(SetSpouse(SetParent(s, newId, SPOUSE), relTo, newId), newId, relTo)

\* (variant: the link is written on the anchor's row)
LinkChild_Inverted(s, newId, relTo) == SetParent(s, relTo, newId)

LinkChild(s, newId, relTo) == SetParent(s, newId, relTo)

\* (variant: the new row is linked below the anchor itself)
LinkSibling_BelowAnchor(s, newId, relTo) ==
    IF Has(s, relTo) /\ Get(s, relTo).parentId # NULL
    THEN SetParent(s, newId, relTo)
    ELSE s

LinkSibling(s, newId, relTo) ==
    IF Has(s, relTo) /\ Get(s, relTo).parentId # NULL
    THEN SetParent(s, newId, Get(s, relTo).parentId)
    ELSE s

\* (variant: the new row is linked below the anchor, as for a child)
LinkParent_NewBelow(s, newId, relTo) == SetParent(s, newId, relTo)

LinkParent(s, newId, relTo) == SetParent(s, relTo, newId)

AddPersonStore(s, newId, name, rel, relTo) ==
    LET ins == InsertRow(s, newId, name) IN
    CASE rel = "SPOUSE"  -> LinkSpouse(ins, newId, relTo)
      [] rel = "CHILD"   -> LinkChild(ins, newId, relTo)
      [] rel = "SIBLING" -> LinkSibling(ins, newId, relTo)
      [] rel = "PARENT"  -> LinkParent(ins, newId, relTo)
      [] OTHER           -> ins

\* ---------------------------------------------------------- deletePerson
UnlinkSpouse(s, person) ==
    IF person.spouseId # NULL THEN SetSpouse(s, person.spouseId, NULL) ELSE s

\* (variant: the children of the deleted person are deleted with it)
DeletePersonStore_Cascading(s, personId) ==
    SelectSeq(DeleteRow(UnlinkSpouse(s, Get(s, personId)), personId),
              LAMBDA r : r.parentId # personId)

DeletePersonStore(s, personId) ==
    OrphanChildren(DeleteRow(UnlinkSpouse(s, Get(s, personId)), personId), personId)

\* ---------------------------------------------------------- updatePerson
\* spouse is the request's spouse payload: absent, or an id with a name.
UpdatePersonStore(s, personId, name, spouse) ==
    LET upd == SetName(s, personId, name) IN
    IF spouse.present THEN SetName(upd, spouse.id, spouse.name) ELSE upd

NoSpousePayload == [present |-> FALSE, id |-> NULL, name |-> Name_1]
SpousePayloads == {NoSpousePayload} \cup [present : {TRUE}, id : AllIds, name : Names]

\* ---------------------------------------------------------- getFamilyTree
\* p.parentId && p.parentId !== 'SPOUSE'
IsChildRow(p) == p.parentId # NULL /\ p.parentId # SPOUSE

\* Second pass: the rows pushed onto personMap.get(id).children, in row order
Children(s, id) ==
    LET kids == SelectSeq(s, LAMBDA p : IsChildRow(p) /\ p.parentId = id) IN
    [i \in 1..Len(kids) |-> kids[i].id]

\* Second pass: the flattened spouse copy (none when spouseId does not resolve)
SpouseSnapshot(s, p) ==
    IF p.spouseId # NULL /\ Has(s, p.spouseId)
    THEN << [id |-> p.spouseId, name |-> Get(s, p.spouseId).name] >>
    ELSE << >>

\* personMap.get(id) after the second pass; children are references (ids)
Node(s, id) ==
    LET p == Get(s, id) IN
    [id |-> p.id, name |-> p.name, parentId |-> p.parentId, spouseId |-> p.spouseId,
     children |-> Children(s, id), spouse |-> SpouseSnapshot(s, p)]

\* const countNodes = (node) => 1 + sum of countNodes over node.children
RECURSIVE CountNodes(_, _)
RECURSIVE SumCounts(_, _, _)
SumCounts(s, kids, i) ==
    IF i > Len(kids) THEN 0 ELSE CountNodes(s, kids[i]) + SumCounts(s, kids, i + 1)
CountNodes(s, id) == 1 + SumCounts(s, Children(s, id), 1)

\* (variant: the rows that are somebody's children stay in the list)
PotentialRoots_WithChildren(s) ==
    LET c == SelectSeq(s, LAMBDA p : p.parentId # SPOUSE) IN
    [i \in 1..Len(c) |-> c[i].id]

\* persons.filter(p => !childIds.has(p.id) && p.parentId !== 'SPOUSE')
PotentialRoots(s) ==
    LET c == SelectSeq(s, LAMBDA p : ~IsChildRow(p) /\ p.parentId # SPOUSE) IN
    [i \in 1..Len(c) |-> c[i].id]

\* (variant: count >= maxNodes, the last of the largest wins)
RECURSIVE LargestRoot_LastWins(_, _, _, _, _)
LargestRoot_LastWins(s, cands, i, maxNodes, root) ==
    IF i > Len(cands) THEN root
    ELSE LET count == CountNodes(s, cands[i]) IN
         IF count >= maxNodes
         THEN LargestRoot_LastWins(s, cands, i + 1, count, cands[i])
         ELSE LargestRoot_LastWins(s, cands, i + 1, maxNodes, root)

\* for (const potentialRoot of potentialRoots) if (count > maxNodes) ...
RECURSIVE LargestRoot(_, _, _, _, _)
LargestRoot(s, cands, i, maxNodes, root) ==
    IF i > Len(cands) THEN root
    ELSE LET count == CountNodes(s, cands[i]) IN
         IF count > maxNodes
         THEN LargestRoot(s, cands, i + 1, count, cands[i])
         ELSE LargestRoot(s, cands, i + 1, maxNodes, root)

\* Third pass with no rootId; the table is not empty
InferRoot(s) ==
    LET cands == PotentialRoots(s) IN
    IF Len(cands) = 0 THEN s[1].id
    ELSE IF Len(cands) = 1 THEN cands[1]
    ELSE LargestRoot(s, cands, 1, 0, NULL)

\* The nodes the returned root reaches through children
RECURSIVE Reach(_, _, _)
Reach(s, frontier, seen) ==
    IF frontier = {} THEN seen
    ELSE LET nxt == UNION {{Children(s, n)[i] : i \in 1..Len(Children(s, n))} : n \in frontier}
         IN Reach(s, nxt \ (seen \cup frontier), seen \cup frontier)

Tree(s, root) == [root |-> root, nodes |-> [n \in Reach(s, {root}, {}) |-> Node(s, n)]]

NoTree == [root |-> NULL, nodes |-> << >>]

\* getFamilyTree(rootId); rootId NULL stands for undefined
GetFamilyTreeResult(s, rootId) ==
    IF Len(s) = 0 THEN [result |-> "error", tree |-> NoTree]
    ELSE IF rootId # NULL
         THEN IF Has(s, rootId)
              THEN [result |-> "ok", tree |-> Tree(s, rootId)]
              ELSE [result |-> "error", tree |-> NoTree]
         ELSE [result |-> "ok", tree |-> Tree(s, InferRoot(s))]

\* res.json(tree) cannot serialise a node that is its own descendant
\* (JSON.stringify throws on a circular structure)
Circular(s, root) ==
    root \in Reach(s, {Children(s, root)[i] : i \in 1..Len(Children(s, root))}, {})

\* What GET /api/tree answers: the tree getFamilyTree returned, or the error
\* of the catch block when getFamilyTree or res.json threw
TreeResponse(s, rootId) ==
    LET r == GetFamilyTreeResult(s, rootId) IN
    IF r.result = "ok" /\ ~Circular(s, r.tree.root)
    THEN [result |-> "ok", tree |-> r.tree, status |-> 200]
    ELSE [result |-> "error", tree |-> NoTree, status |-> 500]

\* ------------------------------------------------------ getAllPersonsFlat
GetAllPersonsFlatResult(s) == [i \in 1..Len(s) |-> [id |-> s[i].id, name |-> s[i].name]]

\* --------------------------------------------------- findRelationshipPath
\* What one iteration of "for (const person of persons)" pushes onto
\* adj.get(k): the parent link first (both directions), then the spouse link
RowPushes(p, k) ==
    (IF IsChildRow(p)
     THEN (IF p.id = k THEN << p.parentId >> ELSE << >>)
          \o (IF p.parentId = k THEN << p.id >> ELSE << >>)
     ELSE << >>)
    \o
    (IF p.spouseId # NULL
     THEN (IF p.id = k THEN << p.spouseId >> ELSE << >>)
          \o (IF p.spouseId = k THEN << p.id >> ELSE << >>)
     ELSE << >>)

\* adj.get(k) || [] once the adjacency list is built, rows taken in order
RECURSIVE Neighbors(_, _, _)
Neighbors(s, i, k) ==
    IF i > Len(s) THEN << >> ELSE RowPushes(s[i], k) \o Neighbors(s, i + 1, k)

\* for (const neighborId of neighbors) if (!visited.has(neighborId)) ...
RECURSIVE Expand(_, _, _, _, _)
Expand(path, neighbors, i, queue, visited) ==
    IF i > Len(neighbors) THEN [queue |-> queue, visited |-> visited]
    ELSE IF neighbors[i] \in visited
         THEN Expand(path, neighbors, i + 1, queue, visited)
         ELSE Expand(path, neighbors, i + 1, Append(queue, Append(path, neighbors[i])),
                     visited \cup {neighbors[i]})

\* while (queue.length > 0): the id path found, or << >> when the queue runs out
RECURSIVE Bfs(_, _, _, _)
Bfs(s, queue, visited, endId) ==
    IF Len(queue) = 0 THEN << >>
    ELSE LET path == Head(queue)
             personId == path[Len(path)]
         IN IF personId = endId THEN path
            ELSE LET e == Expand(path, Neighbors(s, 1, personId), 1, Tail(queue), visited)
                 IN Bfs(s, e.queue, e.visited, endId)

\* The tag of segment i of the path
Relationship(s, path, i) ==
    IF i = 1 THEN "start"
    ELSE LET prevPerson == Get(s, path[i - 1]) IN
         IF prevPerson.parentId = path[i] THEN "parent"
         ELSE IF prevPerson.spouseId = path[i] THEN "spouse"
         ELSE "child"

DetailedPath(s, path) ==
    [i \in 1..Len(path) |->
        [personId |-> path[i], personName |-> Get(s, path[i]).name,
         relationship |-> Relationship(s, path, i)]]

\* findRelationshipPath(startId, endId): "null" for no path, "path" with the
\* segments, "error" when personMap.get(id)! is undefined for an id of the path
FindRelationshipPathResult(s, startId, endId) ==
    LET path == Bfs(s, << <<startId>> >>, {startId}, endId) IN
    IF Len(path) = 0 THEN [result |-> "null", path |-> << >>]
    ELSE IF \E i \in 1..Len(path) : ~Has(s, path[i])
         THEN [result |-> "error", path |-> << >>]
         ELSE [result |-> "path", path |-> DetailedPath(s, path)]

\* ----------------------------------------------------------------- state
\* A slot with no request in it.  A request in flight keeps its operation, the
\* statement it is about to run (pc), the id it creates or deletes, its
\* relationship and relativeToId, the value its SELECT read, the table as it
\* was when the first of the overlapping requests began (base) and the
\* requests that were answered while it was in flight (seen).
Slots == 1..MaxInFlight

Idle ==
    [op |-> "idle", pc |-> 0, id |-> NULL, rel |-> "none", relTo |-> NULL, read |-> NULL,
     base |-> << >>, seen |-> {}]

\* The last request served: the operation, its arguments, how it ended, what
\* it returned, the status the route answered with, and the table as it was
\* when the request arrived.
Result(op, args, result, value, status) ==
    [op |-> op, args |-> args, result |-> result, value |-> value, status |-> status,
     before |-> store, logsBefore |-> logged]

\* The server has started (initializeDatabase) and the client has mounted and
\* fetched the default tree (useEffect -> fetchTreeData())
Init ==
    /\ store = SeedStore
    /\ now = 0
    /\ logged = FALSE
    /\ last = Result("initializeDatabase", NULL, "ok", NULL, 0)
    /\ data = TreeResponse(SeedStore, NULL).tree
    /\ isDefaultRoot = TRUE
    /\ error = FALSE
    /\ pending = [i \in Slots |-> Idle]

\* The server process starts again: initializeDatabase drops the three
\* tables, creates them and seeds persons, which is empty by then
Restart ==
    /\ store' = SeedStore
    /\ logged' = FALSE
    /\ last' = Result("initializeDatabase", NULL, "ok", NULL, 0)
    /\ UNCHANGED now
    /\ UNCHANGED <<cvars, pending>>

\* POST /api/persons/add -> addPerson.  A body that lacks one of the four
\* members is answered 400.  Otherwise Date.now() reads t, later than the
\* last value that went into an id; the INSERT fails on a missing NOT NULL
\* column or on a row that has the id already, and the route answers 500.
AddPerson(t, name, rel, relTo, missing) ==
    LET newId == PersonId(t)
        args == [newId |-> newId, name |-> name, relationship |-> rel,
                 relativeToId |-> relTo, missing |-> missing]
    IN
    /\ t = now + 1
    /\ IF missing \in RouteChecked
       THEN /\ last' = Result("addPerson", [missing |-> missing], "error", NULL, 400)
            /\ UNCHANGED <<store, now, logged>>
       ELSE IF missing \in RequiredColumns \/ newId \in Ids(store)
       THEN /\ last' = Result("addPerson", [missing |-> missing], "error", NULL, 500)
            /\ UNCHANGED <<store, now, logged>>
       ELSE /\ store' = AddPersonStore(store, newId, name, rel, relTo)
            /\ now' = t
            /\ logged' = TRUE
            /\ last' = Result("addPerson", args, "ok", Get(store', newId), 201)
    /\ UNCHANGED <<cvars, pending>>

\* PUT /api/persons/:id -> updatePerson.  The route reads updatedPerson.name,
\* which throws when no row has the id.
UpdatePerson(personId, name, spouse) ==
    LET args == [personId |-> personId, name |-> name, spouse |-> spouse] IN
    /\ store' = UpdatePersonStore(store, personId, name, spouse)
    /\ last' = IF ~Has(store', personId)
               THEN Result("updatePerson", args, "error", NULL, 500)
               ELSE Result("updatePerson", args, "ok", Get(store', personId), 200)
    /\ logged' = (logged \/ Has(store', personId))
    /\ UNCHANGED now
    /\ UNCHANGED <<cvars, pending>>

\* (variant: the orphaning UPDATE runs before the row is looked up)
DeletePerson_WritesFirst(personId) ==
    LET args == [personId |-> personId] IN
    /\ IF ~Has(store, personId)
       THEN /\ store' = OrphanChildren(store, personId)
            /\ last' = Result("deletePerson", args, "error", NULL, 500)
       ELSE /\ store' = DeletePersonStore(store, personId)
            /\ last' = Result("deletePerson", args, "ok", Get(store, personId).name, 200)
    /\ logged' = (logged \/ Has(store, personId))
    /\ UNCHANGED now
    /\ UNCHANGED <<cvars, pending>>

\* DELETE /api/persons/:id -> deletePerson
DeletePerson(personId) ==
    LET args == [personId |-> personId] IN
    /\ IF ~Has(store, personId)
       THEN /\ store' = store
            /\ last' = Result("deletePerson", args, "error", NULL, 500)
       ELSE /\ store' = DeletePersonStore(store, personId)
            /\ last' = Result("deletePerson", args, "ok", Get(store, personId).name, 200)
    /\ logged' = (logged \/ Has(store, personId))
    /\ UNCHANGED now
    /\ UNCHANGED <<cvars, pending>>

\* (variant: the fetch writes the root it returned back as a parentless row)
GetFamilyTree_Rerooting(rootId) ==
    LET r == TreeResponse(store, rootId) IN
    /\ last' = Result("getFamilyTree", [rootId |-> rootId], r.result, r.tree, r.status)
    /\ store' = IF r.result = "ok" THEN SetParent(store, r.tree.root, NULL) ELSE store
    /\ UNCHANGED <<now, logged>>
    /\ UNCHANGED <<cvars, pending>>

\* GET /api/tree -> getFamilyTree
GetFamilyTree(rootId) ==
    LET r == TreeResponse(store, rootId) IN
    /\ last' = Result("getFamilyTree", [rootId |-> rootId], r.result, r.tree, r.status)
    /\ UNCHANGED <<store, now, logged>>
    /\ UNCHANGED <<cvars, pending>>

\* GET /api/persons -> getAllPersonsFlat
GetAllPersonsFlat ==
    /\ last' = Result("getAllPersonsFlat", NULL, "ok", GetAllPersonsFlatResult(store), 200)
    /\ UNCHANGED <<store, now, logged>>
    /\ UNCHANGED <<cvars, pending>>

\* POST /api/relationship-path -> findRelationshipPath.  No path is answered
\* with { path: null }; a found path goes on to the text service, whose answer
\* is outside the model.
FindRelationshipPath(startId, endId) ==
    LET r == FindRelationshipPathResult(store, startId, endId) IN
    /\ last' = Result("findRelationshipPath", [startId |-> startId, endId |-> endId],
                      r.result, r.path, IF r.result = "error" THEN 500 ELSE 200)
    /\ UNCHANGED <<store, now, logged>>
    /\ UNCHANGED <<cvars, pending>>

Next ==
    \/ \E t \in ClockValues, name \in Names, rel \in Relationships, relTo \in AllIds,
          missing \in MissingFields :
          AddPerson(t, name, rel, relTo, missing)
    \/ \E personId \in AllIds, name \in Names, spouse \in SpousePayloads :
          UpdatePerson(personId, name, spouse)
    \/ \E personId \in AllIds : DeletePerson(personId)
    \/ \E rootId \in AllIds \cup {NULL} : GetFamilyTree(rootId)
    \/ GetAllPersonsFlat
    \/ \E startId \in AllIds, endId \in AllIds : FindRelationshipPath(startId, endId)
    \/ Restart

Spec == Init /\ [][Next]_vars

\* ------------------------------------------------------------------------
\* A longer run over the people added after start-up: children and spouses
\* are added relative to ids of added people (present, deleted or not yet
\* created), added people are deleted, and paths between them are searched.
\* ------------------------------------------------------------------------
DeepClock == 5

AddedIds == {PersonId(t) : t \in 1..DeepClock}

\* The requests of a session that works on added relatives only: the second
\* added relative is the one removed, and the path asked for is the one from
\* the fourth added relative to the first
RemovedIds == {PersonId(2)}

PathRequests == {<<PersonId(4), PersonId(1)>>}

NextAdded ==
    \/ \E t \in 1..DeepClock, rel \in {"CHILD", "SPOUSE"}, relTo \in AddedIds :
          AddPerson(t, Name_1, rel, relTo, "none")
    \/ \E personId \in RemovedIds : DeletePerson(personId)
    \/ \E req \in PathRequests : FindRelationshipPath(req[1], req[2])

SpecAdded == Init /\ [][NextAdded]_vars

\* ------------------------------------------------------------------------
\* Statements that fail.  addPerson and deletePerson run their statements
\* one db.run at a time with no transaction around them: when a statement
\* rejects, the function throws, the route answers 500, and the writes made
\* so far stay in the table.
\* ------------------------------------------------------------------------

\* The table after each write of addPerson, in the order of the code
AddPersonWrites(s, newId, name, rel, relTo) ==
    LET ins == InsertRow(s, newId, name) IN
    CASE rel = "SPOUSE"  -> << ins,
                               SetParent(ins, newId, SPOUSE),
                               SetSpouse(SetParent(ins, newId, SPOUSE), relTo, newId),
                               LinkSpouse(ins, newId, relTo) >>
      [] rel = "CHILD"   -> << ins, LinkChild(ins, newId, relTo) >>
      [] rel = "SIBLING" -> IF Has(ins, relTo) /\ Get(ins, relTo).parentId # NULL
                            THEN << ins, LinkSibling(ins, newId, relTo) >>
                            ELSE << ins >>
      [] rel = "PARENT"  -> << ins, LinkParent(ins, newId, relTo) >>
      [] OTHER           -> << ins >>

\* The table after each write of deletePerson on a row of the table
DeletePersonWrites(s, personId) ==
    LET person == Get(s, personId)
        unlinked == UnlinkSpouse(s, person)
    IN (IF person.spouseId # NULL THEN << unlinked >> ELSE << >>)
       \o << DeleteRow(unlinked, personId),
             OrphanChildren(DeleteRow(unlinked, personId), personId) >>

\* POST /api/persons/add when the statement after write k rejects
AddPersonInterrupted(t, rel, relTo, k) ==
    LET newId == PersonId(t)
        writes == AddPersonWrites(store, newId, Name_1, rel, relTo)
    IN
    /\ t = now + 1
    /\ newId \notin Ids(store)
    /\ k \in 1..(Len(writes) - 1)
    /\ store' = writes[k]
    /\ now' = t
    /\ last' = Result("addPerson",
                      [newId |-> newId, name |-> Name_1, relationship |-> rel,
                       relativeToId |-> relTo, missing |-> "none", stopped |-> k],
                      "interrupted", NULL, 500)
    /\ UNCHANGED logged
    /\ UNCHANGED <<cvars, pending>>

\* DELETE /api/persons/:id when the statement after write k rejects
DeletePersonInterrupted(personId, k) ==
    /\ Has(store, personId)
    /\ k \in 1..(Len(DeletePersonWrites(store, personId)) - 1)
    /\ store' = DeletePersonWrites(store, personId)[k]
    /\ last' = Result("deletePerson", [personId |-> personId, stopped |-> k],
                      "interrupted", NULL, 500)
    /\ UNCHANGED <<now, logged>>
    /\ UNCHANGED <<cvars, pending>>

MaxWrites == 4

NextPartial ==
    \/ \E t \in ClockValues, rel \in Relationships, relTo \in AllIds :
          AddPerson(t, Name_1, rel, relTo, "none")
    \/ \E personId \in AllIds : DeletePerson(personId)
    \/ \E t \in ClockValues, rel \in Relationships, relTo \in AllIds, k \in 1..MaxWrites :
          AddPersonInterrupted(t, rel, relTo, k)
    \/ \E personId \in AllIds, k \in 1..MaxWrites : DeletePersonInterrupted(personId, k)

SpecPartial == Init /\ [][NextPartial]_vars

\* ------------------------------------------------------------------------
\* Requests in flight together.  Each route handler is an async function:
\* it runs up to its next await, where the handler of another request may
\* run.  One step below is one statement submitted to the database (db.run
\* or db.get) with the code up to the next one.
\* ------------------------------------------------------------------------
Busy == {i \in Slots : pending[i].op # "idle"}

\* The table as it was when the first of the requests now overlapping began
BaseAtStart == IF Busy = {} THEN store ELSE pending[CHOOSE i \in Busy : TRUE].base

\* What a request that is answered leaves for the others to remember
Summary(q) ==
    [op |-> q.op, id |-> q.id, rel |-> q.rel, relTo |-> q.relTo, solo |-> (q.seen = {})]

\* The slots once the request of slot i has been answered
Answered(i) ==
    [j \in Slots |->
        IF j = i THEN Idle
        ELSE IF pending[j].op = "idle" THEN pending[j]
        ELSE [pending[j] EXCEPT !.seen = @ \cup {Summary(pending[i])}]]

\* A request takes the first free slot
FreeSlot(i) == pending[i].op = "idle" /\ \A j \in Slots : j < i => pending[j].op # "idle"

\* The request as the answer records it
Flight(q) == [newId |-> q.id, personId |-> q.id, name |-> Name_1, relationship |-> q.rel,
              relativeToId |-> q.relTo, missing |-> "none", base |-> q.base, seen |-> q.seen]

\* POST /api/persons/add arrives: Date.now() is read and the INSERT submitted
StartAdd(i, t, rel, relTo) ==
    /\ FreeSlot(i)
    /\ t = now + 1
    /\ PersonId(t) \notin Ids(store)
    /\ store' = InsertRow(store, PersonId(t), Name_1)
    /\ now' = t
    /\ pending' = [pending EXCEPT ![i] =
                      [op |-> "addPerson", pc |-> 1, id |-> PersonId(t), rel |-> rel,
                       relTo |-> relTo, read |-> NULL, base |-> BaseAtStart, seen |-> {}]]
    /\ UNCHANGED <<last, logged>>
    /\ UNCHANGED cvars

\* The next statement of the switch of addPerson: the table it leaves, the
\* value read, and the position after it (4 is the final SELECT)
AddStatement(s, q) ==
    CASE q.rel = "SPOUSE" /\ q.pc = 1 ->
            [store |-> SetParent(s, q.id, SPOUSE), read |-> q.read, pc |-> 2]
      [] q.rel = "SPOUSE" /\ q.pc = 2 ->
            [store |-> SetSpouse(s, q.relTo, q.id), read |-> q.read, pc |-> 3]
      [] q.rel = "SPOUSE" /\ q.pc = 3 ->
            [store |-> SetSpouse(s, q.id, q.relTo), read |-> q.read, pc |-> 4]
      [] q.rel = "CHILD" ->
            [store |-> SetParent(s, q.id, q.relTo), read |-> q.read, pc |-> 4]
      [] q.rel = "SIBLING" /\ q.pc = 1 ->
            LET parentId == IF Has(s, q.relTo) THEN Get(s, q.relTo).parentId ELSE NULL IN
            [store |-> s, read |-> parentId, pc |-> IF parentId # NULL THEN 2 ELSE 4]
      [] q.rel = "SIBLING" /\ q.pc = 2 ->
            [store |-> SetParent(s, q.id, q.read), read |-> q.read, pc |-> 4]
      [] q.rel = "PARENT" ->
            [store |-> SetParent(s, q.relTo, q.id), read |-> q.read, pc |-> 4]
      [] OTHER ->
            [store |-> s, read |-> q.read, pc |-> 4]

\* addPerson goes on by one statement; after the final SELECT the route logs
\* newPerson.name and answers 201, or 500 when the row is no longer there
StepAdd(i) ==
    LET q == pending[i] IN
    /\ q.op = "addPerson"
    /\ IF q.pc < 4
       THEN LET a == AddStatement(store, q) IN
            /\ store' = a.store
            /\ pending' = [pending EXCEPT ![i].pc = a.pc, ![i].read = a.read]
            /\ UNCHANGED <<last, logged>>
       ELSE /\ pending' = Answered(i)
            /\ IF Has(store, q.id)
               THEN /\ last' = Result("addPerson", Flight(q), "ok", Get(store, q.id), 201)
                    /\ logged' = TRUE
               ELSE /\ last' = Result("addPerson", Flight(q), "error", NULL, 500)
                    /\ UNCHANGED logged
            /\ UNCHANGED store
    /\ UNCHANGED now
    /\ UNCHANGED cvars

\* DELETE /api/persons/:id arrives: the SELECT of the row is submitted; with
\* no such row deletePerson throws and the route answers 500
StartDelete(i, personId) ==
    /\ FreeSlot(i)
    /\ IF Has(store, personId)
       THEN /\ pending' = [pending EXCEPT ![i] =
                              [op |-> "deletePerson", pc |-> 1, id |-> personId, rel |-> "none",
                               relTo |-> NULL, read |-> Get(store, personId).spouseId,
                               base |-> BaseAtStart, seen |-> {}]]
            /\ UNCHANGED last
       ELSE /\ pending' = [j \in Slots |->
                              IF pending[j].op = "idle" THEN pending[j]
                              ELSE [pending[j] EXCEPT !.seen = @ \cup
                                       {[op |-> "deletePerson", id |-> personId, rel |-> "none",
                                         relTo |-> NULL, solo |-> TRUE]}]]
            /\ last' = Result("deletePerson", [personId |-> personId], "error", NULL, 500)
    /\ UNCHANGED <<store, now, logged>>
    /\ UNCHANGED cvars

\* deletePerson goes on by one statement: the unlink of the spouse read at
\* the start (when there was one), the DELETE, the orphaning UPDATE; then
\* the route logs and answers
StepDelete(i) ==
    LET q == pending[i] IN
    /\ q.op = "deletePerson"
    /\ IF q.pc = 1 /\ q.read # NULL
       THEN /\ store' = SetSpouse(store, q.read, NULL)
            /\ pending' = [pending EXCEPT ![i].pc = 2]
            /\ UNCHANGED <<last, logged>>
       ELSE IF q.pc \in {1, 2}
       THEN /\ store' = DeleteRow(store, q.id)
            /\ pending' = [pending EXCEPT ![i].pc = 3]
            /\ UNCHANGED <<last, logged>>
       ELSE /\ store' = OrphanChildren(store, q.id)
            /\ pending' = Answered(i)
            /\ last' = Result("deletePerson", Flight(q), "ok", NULL, 200)
            /\ logged' = TRUE
    /\ UNCHANGED now
    /\ UNCHANGED cvars

\* The relationships of the enum
KnownRelationships == {"CHILD", "SPOUSE", "SIBLING", "PARENT"}

\* The requests of two editors at work on the first seed person and on the
\* first relative added: both add relatives of either, one deletes the seed
\* person
ConcurrentAnchors == {ID_1, PersonId(1)}

ConcurrentDeletes == {ID_1}

NextConcurrent ==
    \/ \E i \in Slots, t \in ClockValues, rel \in KnownRelationships,
          relTo \in ConcurrentAnchors :
          StartAdd(i, t, rel, relTo)
    \/ \E i \in Slots : StepAdd(i)
    \/ \E i \in Slots, personId \in ConcurrentDeletes : StartDelete(i, personId)
    \/ \E i \in Slots : StepDelete(i)

SpecConcurrent == Init /\ [][NextConcurrent]_vars

\* ------------------------------------------------------------------------
\* The client (App) in front of the server.  One handler runs at a time: while
\* fetchTreeData is under way the page shows the spinner only, and the modals
\* of add, edit and delete cover the page until their handler has finished.
\* ------------------------------------------------------------------------

\* The tree nodes on display, and the ids of the spouse copies shown with them
Shown == DOMAIN data.nodes

ShownSpouses == {data.nodes[n].spouse[1].id : n \in {m \in Shown : Len(data.nodes[m].spouse) = 1}}

\* What handleNodeClick and handleSpouseClick can put in the profile panel
Selectable == Shown \cup ShownSpouses

\* The page with the tree is up: no error screen, and a tree was fetched
TreeOnDisplay == ~error /\ data.root # NULL

\* fetchTreeData(rootId) against table s: setData and setIsDefaultRoot on
\* success, setError when the request fails
FetchTreeData(s, rootId) ==
    LET r == TreeResponse(s, rootId) IN
    IF r.result = "ok"
    THEN [data |-> r.tree, isDefaultRoot |-> (rootId = NULL), error |-> FALSE]
    ELSE [data |-> data, isDefaultRoot |-> isDefaultRoot, error |-> TRUE]

\* refreshAllData(currentRootId) against table s: setData on success, a
\* console message otherwise
RefreshAllData(s, currentRootId) ==
    LET r == TreeResponse(s, currentRootId) IN
    IF r.result = "ok" THEN r.tree ELSE data

\* The relationships AddRelativeModal offers for a node of the tree
RelationshipOptions(target) ==
    {"CHILD"}
    \cup (IF Len(data.nodes[target].spouse) = 0 THEN {"SPOUSE"} ELSE {})
    \cup (IF target # data.root THEN {"SIBLING"} ELSE {"PARENT"})

\* What the client was showing when the handler started
View(personId) == [personId |-> personId, root |-> data.root, isDefaultRoot |-> isDefaultRoot]

\* handleSaveRelative: POST /api/persons/add, then refreshAllData(data.id)
HandleSaveRelative(t, target, rel) ==
    /\ TreeOnDisplay
    /\ target \in Shown
    /\ rel \in RelationshipOptions(target)
    /\ t = now + 1
    /\ PersonId(t) \notin Ids(store)
    /\ store' = AddPersonStore(store, PersonId(t), Name_1, rel, target)
    /\ now' = t
    /\ logged' = TRUE
    /\ last' = Result("handleSaveRelative", View(target), "sent", rel, 201)
    /\ data' = RefreshAllData(store', data.root)
    /\ UNCHANGED <<isDefaultRoot, error, pending>>

\* handleUpdatePerson: PUT /api/persons/:id with the edited fields and, when
\* the person is shown with a spouse, the spouse copy; then refreshAllData
HandleUpdatePerson(personId, withSpouse) ==
    /\ TreeOnDisplay
    /\ personId \in Selectable
    /\ withSpouse => (personId \in Shown /\ Len(data.nodes[personId].spouse) = 1)
    /\ LET spouse == IF withSpouse
                     THEN [present |-> TRUE, id |-> data.nodes[personId].spouse[1].id,
                           name |-> Name_1]
                     ELSE NoSpousePayload
       IN /\ store' = UpdatePersonStore(store, personId, Name_1, spouse)
          /\ logged' = (logged \/ Has(store', personId))
          /\ last' = Result("handleUpdatePerson", View(personId), "sent", NULL,
                            IF Has(store', personId) THEN 200 ELSE 500)
          /\ data' = IF Has(store', personId) THEN RefreshAllData(store', data.root) ELSE data
    /\ UNCHANGED <<now, isDefaultRoot, error, pending>>

\* (variant: the delete button of the profile panel is never disabled)
HandleDeletePerson_ButtonEnabled(personId) ==
    /\ TreeOnDisplay
    /\ personId \in Selectable
    /\ IF personId = data.root /\ isDefaultRoot
       THEN /\ last' = Result("handleDeletePerson", View(personId), "rejected", NULL, 0)
            /\ UNCHANGED <<store, logged, data, isDefaultRoot, error>>
       ELSE IF ~Has(store, personId)
       THEN /\ last' = Result("handleDeletePerson", View(personId), "sent", NULL, 500)
            /\ UNCHANGED <<store, logged, data, isDefaultRoot, error>>
       ELSE LET c == FetchTreeData(DeletePersonStore(store, personId),
                                   IF personId = data.root THEN NULL ELSE data.root)
            IN /\ store' = DeletePersonStore(store, personId)
               /\ logged' = TRUE
               /\ last' = Result("handleDeletePerson", View(personId), "sent", NULL, 200)
               /\ data' = c.data
               /\ isDefaultRoot' = c.isDefaultRoot
               /\ error' = c.error
    /\ UNCHANGED <<now, pending>>

\* The delete button of the profile panel, disabled for the person at the
\* root of the tree on display, then the confirmation and handleDeletePerson:
\* DELETE /api/persons/:id, then fetchTreeData of the root on display, or of
\* the default tree when the root itself was deleted
HandleDeletePerson(personId) ==
    /\ TreeOnDisplay
    /\ personId \in Selectable
    /\ IF personId = data.root \/ (personId = data.root /\ isDefaultRoot)
       THEN /\ last' = Result("handleDeletePerson", View(personId), "rejected", NULL, 0)
            /\ UNCHANGED <<store, logged, data, isDefaultRoot, error>>
       ELSE IF ~Has(store, personId)
       THEN /\ last' = Result("handleDeletePerson", View(personId), "sent", NULL, 500)
            /\ UNCHANGED <<store, logged, data, isDefaultRoot, error>>
       ELSE LET c == FetchTreeData(DeletePersonStore(store, personId),
                                   IF personId = data.root THEN NULL ELSE data.root)
            IN /\ store' = DeletePersonStore(store, personId)
               /\ logged' = TRUE
               /\ last' = Result("handleDeletePerson", View(personId), "sent", NULL, 200)
               /\ data' = c.data
               /\ isDefaultRoot' = c.isDefaultRoot
               /\ error' = c.error
    /\ UNCHANGED <<now, pending>>

\* handleSetAsRoot: the button is shown for a person who is not the root
HandleSetAsRoot(personId) ==
    /\ TreeOnDisplay
    /\ personId \in Selectable
    /\ personId # data.root
    /\ LET c == FetchTreeData(store, personId) IN
          /\ data' = c.data
          /\ isDefaultRoot' = c.isDefaultRoot
          /\ error' = c.error
          /\ last' = Result("handleSetAsRoot", View(personId), "sent", NULL,
                            IF c.error THEN 500 ELSE 200)
    /\ UNCHANGED <<store, now, logged, pending>>

\* handleResetTree (the button is shown when the tree is not the default one)
\* and the retry button of the error screen: fetchTreeData()
HandleResetTree ==
    /\ error \/ ~isDefaultRoot
    /\ LET c == FetchTreeData(store, NULL) IN
          /\ data' = c.data
          /\ isDefaultRoot' = c.isDefaultRoot
          /\ error' = c.error
          /\ last' = Result("handleResetTree", View(NULL), "sent", NULL,
                            IF c.error THEN 500 ELSE 200)
    /\ UNCHANGED <<store, now, logged, pending>>

NextClient ==
    \/ \E t \in ClockValues, target \in AllIds, rel \in Relationships :
          HandleSaveRelative(t, target, rel)
    \/ \E personId \in AllIds, withSpouse \in BOOLEAN : HandleUpdatePerson(personId, withSpouse)
    \/ \E personId \in AllIds : HandleDeletePerson(personId)
    \/ \E personId \in AllIds : HandleSetAsRoot(personId)
    \/ HandleResetTree

SpecClient == Init /\ [][NextClient]_vars

\* ------------------------------------------------------------------------
\* Properties of the mutation engine
\* ------------------------------------------------------------------------

\* C1: in every reachable state spouse links are symmetric: if A.spouseId =
\* B.id then B.spouseId = A.id, for all rows A and B.
C1_SpouseLinksSymmetric ==
    \A i \in 1..Len(store), j \in 1..Len(store) :
        store[i].spouseId = store[j].id => store[j].spouseId = store[i].id

\* C2: in every reachable state every row's parentId is null, the sentinel
\* 'SPOUSE' or the id of a row of the table.
C2_ParentIdResolves ==
    \A i \in 1..Len(store) :
        store[i].parentId \in {NULL, SPOUSE} \cup Ids(store)

\* The last call was a successful addPerson of relationship rel whose anchor
\* relativeToId was a row of the table when it was called.
AddedRelativeOfExisting(rel) ==
    /\ last.op = "addPerson"
    /\ last.result = "ok"
    /\ last.args.relationship = rel
    /\ Has(last.before, last.args.relativeToId)

\* C3: after addPerson with relationship Spouse relative to an existing
\* person A returns the new person B, A.spouseId = B.id, B.spouseId = A.id
\* and B.parentId = 'SPOUSE'.
C3_SpouseAddPairsBoth ==
    AddedRelativeOfExisting("SPOUSE") =>
        LET A == last.args.relativeToId
            B == last.args.newId
        IN /\ last.value.id = B
           /\ Get(store, A).spouseId = B
           /\ Get(store, B).spouseId = A
           /\ Get(store, B).parentId = SPOUSE

C3_Witness ==
    /\ AddedRelativeOfExisting("SPOUSE")
    /\ Get(store, last.args.relativeToId).spouseId = last.args.newId
    /\ Get(store, last.args.newId).spouseId = last.args.relativeToId

DeleteSucceeded == last.op = "deletePerson" /\ last.result = "ok"

\* C4: delete is non-cascading: after deletePerson(X) succeeds exactly one
\* row, X, has left the table, and every row that had parentId X is still
\* there with parentId null.
C4_DeleteNonCascading ==
    DeleteSucceeded =>
        LET X == last.args.personId
            b == last.before
        IN /\ Has(b, X)
           /\ Ids(store) = Ids(b) \ {X}
           /\ Len(store) = Len(b) - 1
           /\ \A i \in 1..Len(b) :
                 (b[i].parentId = X /\ b[i].id # X) =>
                     /\ Has(store, b[i].id)
                     /\ Get(store, b[i].id).parentId = NULL

\* A person with two children was deleted
C4_Witness ==
    /\ DeleteSucceeded
    /\ \E i \in 1..Len(last.before), j \in 1..Len(last.before) :
          /\ i # j
          /\ last.before[i].parentId = last.args.personId
          /\ last.before[j].parentId = last.args.personId
          /\ Has(store, last.before[i].id)
          /\ Has(store, last.before[j].id)

\* ------------------------------------------------------------------------
\* Properties of tree reconstruction
\* ------------------------------------------------------------------------

\* Positions of the root candidates: the rows that have no parentId
CandidateRows(s) == {i \in 1..Len(s) : s[i].parentId = NULL}

\* A row together with every row reachable from it through parent links
\* taken downwards
RECURSIVE DescendantClosure(_, _)
DescendantClosure(s, D) ==
    LET D2 == D \cup {s[i].id : i \in {j \in 1..Len(s) : s[j].parentId \in D}} IN
    IF D2 = D THEN D ELSE DescendantClosure(s, D2)

SubtreeSize(s, id) == Cardinality(DescendantClosure(s, {id}))

InferredRootFetched == last.op = "getFamilyTree" /\ last.args.rootId = NULL

\* C5: getFamilyTree with no rootId, on a table with at least one root
\* candidate, returns the candidate whose descendant subtree is largest, the
\* first in row order among candidates of equal size.
C5_LargestSubtreeRoot ==
    (InferredRootFetched /\ CandidateRows(store) # {}) =>
        /\ last.result = "ok"
        /\ \E i \in CandidateRows(store) :
              /\ last.value.root = store[i].id
              /\ \A j \in CandidateRows(store) :
                    /\ SubtreeSize(store, store[j].id) <= SubtreeSize(store, store[i].id)
                    /\ j < i => SubtreeSize(store, store[j].id) < SubtreeSize(store, store[i].id)

\* Several candidates, and a later one with the larger subtree was returned
C5_Witness ==
    /\ InferredRootFetched
    /\ last.result = "ok"
    /\ Cardinality(CandidateRows(store)) >= 2
    /\ \E i \in CandidateRows(store), j \in CandidateRows(store) :
          /\ j < i
          /\ last.value.root = store[i].id
          /\ SubtreeSize(store, store[i].id) >= 3

\* C9: after addPerson with relationship Child relative to an existing person
\* A returns the new person C, getFamilyTree(A.id) returns a tree whose root is
\* A and whose root's children contain C.
C9_ChildAddRoundTrip ==
    AddedRelativeOfExisting("CHILD") =>
        LET A == last.args.relativeToId
            C == last.args.newId
            r == GetFamilyTreeResult(store, A)
        IN /\ last.value.id = C
           /\ r.result = "ok"
           /\ r.tree.root = A
           /\ \E k \in 1..Len(r.tree.nodes[A].children) : r.tree.nodes[A].children[k] = C

\* The child was added to a person who already had one
C9_Witness ==
    /\ AddedRelativeOfExisting("CHILD")
    /\ LET r == GetFamilyTreeResult(store, last.args.relativeToId) IN
          /\ r.result = "ok"
          /\ Len(r.tree.nodes[last.args.relativeToId].children) >= 2
          /\ r.tree.nodes[last.args.relativeToId].children[2] = last.args.newId

ReadOps == {"getFamilyTree", "getAllPersonsFlat", "findRelationshipPath"}

\* C10: the read operations leave every row of the table unchanged, so a
\* getFamilyTree call repeated with the same rootId right after returns the
\* identical tree.
C10_ReadsLeaveStore ==
    last.op \in ReadOps =>
        /\ store = last.before
        /\ last.op = "getFamilyTree" =>
              TreeResponse(store, last.args.rootId) =
                  [result |-> last.result, tree |-> last.value, status |-> last.status]

\* A tree with a child and a spouse copy in it was fetched
C10_Witness ==
    /\ last.op = "getFamilyTree"
    /\ last.result = "ok"
    /\ Len(last.value.nodes[last.value.root].children) >= 1
    /\ Len(last.value.nodes[last.value.root].spouse) = 1

\* ------------------------------------------------------------------------
\* Properties of path finding
\* ------------------------------------------------------------------------

\* Two rows of the table joined by a parent link or a spouse link, in either
\* direction
Linked(s, a, b) ==
    /\ Has(s, a) /\ Has(s, b)
    /\ \/ Get(s, a).parentId = b
       \/ Get(s, b).parentId = a
       \/ Get(s, a).spouseId = b
       \/ Get(s, b).spouseId = a

\* The number of links on a shortest chain from the frontier to target, or -1
\* when no chain of links joins them
RECURSIVE LinkDistance(_, _, _, _, _)
LinkDistance(s, frontier, seen, d, target) ==
    IF target \in frontier THEN d
    ELSE IF frontier = {} THEN -1
    ELSE LET nxt == {b \in Ids(s) \ (seen \cup frontier) : \E a \in frontier : Linked(s, a, b)}
         IN LinkDistance(s, nxt, seen \cup frontier, d + 1, target)

Distance(s, a, b) == LinkDistance(s, {a} \cap Ids(s), {}, 0, b)

PathSearched == last.op = "findRelationshipPath"

\* C6: a returned path has the minimum number of hops between startId and
\* endId in the graph of parent and spouse links, and a path is returned
\* whenever a chain of links joins two existing rows.
C6_ShortestPath ==
    PathSearched =>
        LET a == last.args.startId
            b == last.args.endId
        IN /\ last.result = "path" => Len(last.value) - 1 = Distance(store, a, b)
           /\ (Has(store, a) /\ Has(store, b) /\ Distance(store, a, b) >= 0)
                 => last.result = "path"

\* C7: in every returned path the first segment is tagged 'start' and every
\* later tag names the real link from the previous person: 'parent' only if
\* prev.parentId = curr.id, 'spouse' only if prev.spouseId = curr.id, 'child'
\* only if curr.parentId = prev.id.
C7_HopTagsNameRealLinks ==
    (PathSearched /\ last.result = "path") =>
        /\ last.value[1].relationship = "start"
        /\ \A i \in 2..Len(last.value) :
              LET prev == Get(store, last.value[i - 1].personId)
                  curr == Get(store, last.value[i].personId)
                  tag == last.value[i].relationship
              IN /\ tag \in {"parent", "spouse", "child"}
                 /\ tag = "parent" => prev.parentId = curr.id
                 /\ tag = "spouse" => prev.spouseId = curr.id
                 /\ tag = "child" => curr.parentId = prev.id

\* C8: findRelationshipPath on two existing rows that no chain of parent or
\* spouse links joins returns null and raises no error, and the route answers
\* it with path null, not with an error status.
C8_NoPathIsNull ==
    (/\ PathSearched
     /\ Has(store, last.args.startId)
     /\ Has(store, last.args.endId)
     /\ Distance(store, last.args.startId, last.args.endId) = -1)
        => (last.result = "null" /\ last.status = 200)

\* ------------------------------------------------------------------------
\* Properties of error reporting
\* ------------------------------------------------------------------------

TreeFetched == last.op = "getFamilyTree"

\* C11: a tree fetch returns no tree in its two error cases and reports them
\* by kind: a rootId that names no record of a non-empty table is answered
\* with a 4xx status (NotFound), an empty table with a 5xx status (EmptyTree).
C11_TreeErrorsByKind ==
    TreeFetched =>
        /\ (Len(store) > 0 /\ last.args.rootId # NULL /\ ~Has(store, last.args.rootId))
              => (last.result = "error" /\ last.value = NoTree /\ last.status \in 400..499)
        /\ Len(store) = 0
              => (last.result = "error" /\ last.value = NoTree /\ last.status \in 500..599)

DeleteOfMissing == last.op = "deletePerson" /\ ~Has(last.before, last.args.personId)

\* C12: deletePerson(id) with an id that is not in the table fails with the
\* not-found error and leaves every row unchanged.
C12_DeleteMissingChangesNothing ==
    DeleteOfMissing => (last.result = "error" /\ store = last.before)

\* The id was missing while another row still named it as its parent and a
\* third row named it as its spouse
C12_Witness ==
    /\ DeleteOfMissing
    /\ last.result = "error"
    /\ \E i \in 1..Len(store) : store[i].parentId = last.args.personId
    /\ \E i \in 1..Len(store) : store[i].spouseId = last.args.personId

UpdateOfMissing == last.op = "updatePerson" /\ ~Has(last.before, last.args.personId)

\* C13: updatePerson(id, data) with an id that is not in the table signals
\* NotFound and leaves every row unchanged, also when data carries a spouse
\* payload that names an existing row.
C13_UpdateMissingChangesNothing ==
    UpdateOfMissing => (last.result = "error" /\ store = last.before)

\* ------------------------------------------------------------------------
\* Properties of root inference and of the mutations' frames
\* ------------------------------------------------------------------------

\* C17: on a non-empty table getFamilyTree with no rootId never returns as
\* root a row whose parentId is the sentinel 'SPOUSE'.
C17_SentinelNeverRoot ==
    (InferredRootFetched /\ Len(store) > 0 /\ last.result = "ok") =>
        Get(store, last.value.root).parentId # SPOUSE

\* The last call was a successful addPerson(Parent) relative to the row that
\* a tree fetch with no rootId answered as root on the table as it was
ParentAddedToRoot ==
    /\ last.op = "addPerson"
    /\ last.result = "ok"
    /\ last.args.relationship = "PARENT"
    /\ LET r == TreeResponse(last.before, NULL) IN
          r.result = "ok" /\ r.tree.root = last.args.relativeToId

\* C18: after addPerson(Parent) relative to R, the root a fetch with no rootId
\* returned just before, R.parentId is the new row's id and a fetch with no
\* rootId returns the new row as root with R among its children.
C18_ParentAddExtendsUpward ==
    ParentAddedToRoot =>
        LET R == last.args.relativeToId
            N == last.args.newId
            r == TreeResponse(store, NULL)
        IN /\ Get(store, R).parentId = N
           /\ r.result = "ok"
           /\ r.tree.root = N
           /\ \E k \in 1..Len(r.tree.nodes[N].children) : r.tree.nodes[N].children[k] = R

\* A parent was put above a root that had a child and competed with another
\* parentless row
C18_Witness ==
    /\ ParentAddedToRoot
    /\ Len(Children(store, last.args.relativeToId)) >= 1
    /\ Cardinality(CandidateRows(last.before)) >= 2
    /\ TreeResponse(store, NULL).tree.root = last.args.newId

\* C19: after deletePerson(X) succeeds no remaining row references the
\* deleted id: no row has parentId = X and no row has spouseId = X.
C19_NoReferenceToDeleted ==
    DeleteSucceeded =>
        \A i \in 1..Len(store) :
            /\ store[i].parentId # last.args.personId
            /\ store[i].spouseId # last.args.personId

\* Positions of the rows an update changed
ChangedRows == {i \in 1..Len(last.before) : store[i] # last.before[i]}

\* C20: updatePerson never changes a parentId or a spouseId and never adds or
\* removes a row, and the rows whose descriptive fields it changes are among
\* the row of the given id and, with a spouse payload, the row that row's
\* spouseId names.
C20_UpdateFrame ==
    last.op = "updatePerson" =>
        LET b == last.before
            P == last.args.personId
            allowed == {P} \cup (IF last.args.spouse.present /\ Has(b, P)
                                 THEN {Get(b, P).spouseId} ELSE {})
        IN /\ Len(store) = Len(b)
           /\ \A i \in 1..Len(b) :
                 /\ store[i].id = b[i].id
                 /\ store[i].parentId = b[i].parentId
                 /\ store[i].spouseId = b[i].spouseId
           /\ \A i \in ChangedRows : b[i].id \in allowed

\* ------------------------------------------------------------------------
\* Properties of request validation and of start-up
\* ------------------------------------------------------------------------

\* C14: an add-person request that lacks personData, relationship,
\* relativeToId or user, or whose personData lacks name, gender or birthDate,
\* is answered with a 4xx status and the table is unchanged.
C14_MissingFieldsRejected ==
    (last.op = "addPerson" /\ last.args.missing # "none") =>
        (last.result = "error" /\ last.status \in 400..499 /\ store = last.before)

\* C15: the store is persistent across start-up: after initializeDatabase has
\* run again every row written before is still in the table as it was, and
\* activity_logs still holds the entries it held.
C15_StoreSurvivesRestart ==
    last.op = "initializeDatabase" =>
        /\ \A i \in 1..Len(last.before) :
              /\ Has(store, last.before[i].id)
              /\ Get(store, last.before[i].id) = last.before[i]
        /\ last.logsBefore => logged

\* ------------------------------------------------------------------------
\* Properties of the client
\* ------------------------------------------------------------------------

DeleteAsked == last.op = "handleDeletePerson"

\* C16: a delete of the person at the root of the tree on display is
\* rejected in the client when the tree is the default one (isDefaultRoot),
\* no request reaches the server and the table is unchanged; and no client
\* action ever issues a delete for the person displayed as root.
C16_DisplayedRootNotDeleted ==
    (DeleteAsked /\ last.args.personId = last.args.root) =>
        /\ last.result = "rejected"
        /\ last.status = 0
        /\ store = last.before
        /\ Has(store, last.args.personId)

\* The delete was asked for the root of the default tree, and for the root of
\* a tree that a set-as-root had put on display
C16_Witness ==
    /\ DeleteAsked
    /\ last.args.personId = last.args.root
    /\ last.args.isDefaultRoot
    /\ last.result = "rejected"
    /\ Len(store) > 2

C16_WitnessSetAsRoot ==
    /\ DeleteAsked
    /\ last.args.personId = last.args.root
    /\ ~last.args.isDefaultRoot
    /\ last.result = "rejected"

\* ------------------------------------------------------------------------
\* Further properties of the mutation engine
\* ------------------------------------------------------------------------

\* C21: after addPerson with relationship Sibling relative to an existing
\* anchor A, the new row's parentId is A's parentId as it was at the call
\* (null when A had none, and the add still succeeds), the new row has no
\* spouseId, and no row that existed is changed.
C21_SiblingSharesParent ==
    AddedRelativeOfExisting("SIBLING") =>
        LET A == last.args.relativeToId
            B == last.args.newId
            b == last.before
        IN /\ last.status = 201
           /\ Get(store, B).parentId = Get(b, A).parentId
           /\ Get(store, B).spouseId = NULL
           /\ Len(store) = Len(b) + 1
           /\ \A i \in 1..Len(b) : store[i] = b[i]

\* A sibling was added to an anchor that had a parent
C21_Witness ==
    /\ AddedRelativeOfExisting("SIBLING")
    /\ Get(last.before, last.args.relativeToId).parentId \in Ids(last.before)
    /\ Get(store, last.args.newId).parentId = Get(last.before, last.args.relativeToId).parentId

\* ------------------------------------------------------------------------
\* Further properties of path finding
\* ------------------------------------------------------------------------

\* C22: path finding builds edges only from parentId and spouseId values
\* that resolve to rows: findRelationshipPath between two rows of the table
\* returns null or a path whose every personId is the id of a row, and never
\* fails because a link names a missing row.
C22_PathOverResolvedLinks ==
    (PathSearched /\ Has(store, last.args.startId) /\ Has(store, last.args.endId)) =>
        /\ last.result \in {"null", "path"}
        /\ last.status = 200
        /\ \A i \in 1..Len(last.value) : Has(store, last.value[i].personId)

\* The data-model invariants: spouse links are symmetric and no parentId or
\* spouseId names a missing row
Consistent(s) ==
    /\ \A i \in 1..Len(s), j \in 1..Len(s) :
          s[i].spouseId = s[j].id => s[j].spouseId = s[i].id
    /\ \A i \in 1..Len(s) :
          /\ s[i].parentId \in {NULL, SPOUSE} \cup Ids(s)
          /\ s[i].spouseId \in {NULL} \cup Ids(s)

Interrupted == last.result = "interrupted"

\* The whole function is the last of its writes
WritesEndInStore ==
    /\ (last.op = "addPerson" /\ last.result = "ok") =>
          LET w == AddPersonWrites(last.before, last.args.newId, last.args.name,
                                   last.args.relationship, last.args.relativeToId)
          IN store = w[Len(w)]
    /\ DeleteSucceeded =>
          LET w == DeletePersonWrites(last.before, last.args.personId)
          IN store = w[Len(w)]

\* C23: the partial-failure risk is confined to spouse pairing and
\* update-with-spouse: when a Child, Sibling or Parent add or a delete stops
\* between two of its writes on a table that satisfied the data-model
\* invariants, the table still satisfies them.
C23_PartialFailureConfined ==
    (/\ Interrupted
     /\ Consistent(last.before)
     /\ \/ last.op = "deletePerson"
        \/ last.op = "addPerson" /\ last.args.relationship \in {"CHILD", "SIBLING", "PARENT"})
    => Consistent(store)

\* ------------------------------------------------------------------------
\* Further properties of tree reconstruction
\* ------------------------------------------------------------------------

\* The ids of a sequence of ids
Members(seq) == {seq[i] : i \in 1..Len(seq)}

\* C24: adding a spouse never produces a new root: after addPerson with
\* relationship Spouse relative to an existing person, getFamilyTree with no
\* rootId returns the same row as root as before the add, the children list
\* of every node that existed is the same, and the new row is neither a root
\* candidate nor a member of any children list.
C24_SpouseAddKeepsRoot ==
    AddedRelativeOfExisting("SPOUSE") =>
        LET B == last.args.newId
            b == last.before
        IN /\ GetFamilyTreeResult(store, NULL).result = "ok"
           /\ GetFamilyTreeResult(store, NULL).tree.root = GetFamilyTreeResult(b, NULL).tree.root
           /\ \A id \in Ids(b) : Children(store, id) = Children(b, id)
           /\ B \notin Members(PotentialRoots(store))
           /\ \A id \in Ids(store) : B \notin Members(Children(store, id))

\* A spouse was added to a child of a tree that has another root candidate
C24_Witness ==
    /\ AddedRelativeOfExisting("SPOUSE")
    /\ Len(PotentialRoots(store)) >= 2
    /\ \E id \in Ids(store) : last.args.relativeToId \in Members(Children(store, id))
    /\ Get(store, last.args.newId).parentId = SPOUSE

\* The ids reached from the ids of A by following parentId upwards, one or
\* more links
RECURSIVE AncestorClosure(_, _)
AncestorClosure(s, A) ==
    LET up == {s[i].parentId : i \in {j \in 1..Len(s) : s[j].id \in A}} \ {NULL, SPOUSE}
        A2 == A \cup up
    IN IF A2 = A THEN A ELSE AncestorClosure(s, A2)

Ancestors(s, id) ==
    AncestorClosure(s, {Get(s, id).parentId} \ {NULL, SPOUSE})

\* C25: the parent relation stays acyclic: in every state reachable from the
\* seeded table by addPerson (any relationship, any relativeToId, a fresh id
\* each time) and deletePerson, no row is its own ancestor through parentId
\* links.
C25_ParentsAcyclic ==
    \A i \in 1..Len(store) : store[i].id \notin Ancestors(store, store[i].id)

\* C26: a spouse-only row always has a partner: in every reachable state
\* every row whose parentId is the sentinel 'SPOUSE' has a spouseId that
\* names a row of the table.
C26_SpouseRowHasPartner ==
    \A i \in 1..Len(store) :
        store[i].parentId = SPOUSE => Has(store, store[i].spouseId)

\* ------------------------------------------------------------------------
\* Further properties of the client
\* ------------------------------------------------------------------------

\* C27: in the client, whenever isDefaultRoot is true and no request is in
\* flight, the root of the tree on display is the row the server returns for
\* a tree fetch with no rootId, after any sequence of add-relative, update,
\* delete, set-as-root and reset actions.
C27_DefaultViewShowsServerRoot ==
    (isDefaultRoot /\ TreeOnDisplay) =>
        /\ TreeResponse(store, NULL).result = "ok"
        /\ data.root = TreeResponse(store, NULL).tree.root

\* ------------------------------------------------------------------------
\* Properties of requests in flight together
\* ------------------------------------------------------------------------

\* The rows of a table, whatever their order
RowSet(s) == {s[i] : i \in 1..Len(s)}

\* What a request does to table s when nothing runs between its statements
WholeOp(s, q) ==
    IF q.op = "addPerson" THEN AddPersonStore(s, q.id, Name_1, q.rel, q.relTo)
    ELSE IF Has(s, q.id) THEN DeletePersonStore(s, q.id)
    ELSE s

\* The request just answered, as a request
LastRequest ==
    [op |-> last.op, id |-> last.args.personId, rel |-> last.args.relationship,
     relTo |-> last.args.relativeToId]

\* Two requests overlapped, no other request ran while either was in flight,
\* and the second of them has just been answered
PairAnswered ==
    /\ Busy = {}
    /\ last.op \in {"addPerson", "deletePerson"}
    /\ last.result = "ok"
    /\ Cardinality(last.args.seen) = 1
    /\ \A s \in last.args.seen : s.solo

\* The outcome is that of the two requests run one after the other
SerialOutcome ==
    PairAnswered =>
        \A s \in last.args.seen :
            \/ RowSet(store) = RowSet(WholeOp(WholeOp(last.args.base, s), LastRequest))
            \/ RowSet(store) = RowSet(WholeOp(WholeOp(last.args.base, LastRequest), s))

\* The pair was deletePerson(A) and addPerson(Child, relativeToId = A)
DeleteWithChildAdd(A) ==
    /\ PairAnswered
    /\ \E s \in last.args.seen :
          \/ /\ last.op = "deletePerson" /\ last.args.personId = A
             /\ s.op = "addPerson" /\ s.rel = "CHILD" /\ s.relTo = A
          \/ /\ s.op = "deletePerson" /\ s.id = A
             /\ last.op = "addPerson" /\ last.args.relationship = "CHILD"
             /\ last.args.relativeToId = A

NoChildOfDeleted ==
    \A A \in AllIds :
        (DeleteWithChildAdd(A) /\ Has(last.args.base, A)) =>
            \A i \in 1..Len(store) : store[i].parentId # A

\* C28: when two mutation requests run together with their statements
\* interleaved at await boundaries, the outcome is as if they had run one
\* after the other; in particular after deletePerson(A) and addPerson(Child,
\* relativeToId = A) have both been answered, no row has parentId = A.
C28_ConcurrentAsSerial == SerialOutcome /\ NoChildOfDeleted

\* ------------------------------------------------------------------------
\* Termination of the two traversals
\* ------------------------------------------------------------------------

\* The rows that are their own ancestors
OnCycle(s) == {s[i].id : i \in {j \in 1..Len(s) : s[j].id \in Ancestors(s, s[j].id)}}

\* countNodes(node) when its recursion goes no deeper than fuel calls, -1
\* when it does
RECURSIVE CountWithin(_, _, _)
CountWithin(s, id, fuel) ==
    IF fuel = 0 THEN -1
    ELSE LET kids == Children(s, id)
             counts == [i \in 1..Len(kids) |-> CountWithin(s, kids[i], fuel - 1)]
         IN IF \E i \in 1..Len(kids) : counts[i] = -1 THEN -1
            ELSE 1 + SumCounts(s, kids, 1)

\* Every id the adjacency list can hold a key for
Mentioned(s) ==
    Ids(s) \cup ({s[i].parentId : i \in 1..Len(s)} \ {NULL, SPOUSE})
           \cup ({s[i].spouseId : i \in 1..Len(s)} \ {NULL})

\* The number of times the while loop of the path search takes a path off
\* the queue, counted no further than cap + 1
RECURSIVE BfsIterations(_, _, _, _, _, _)
BfsIterations(s, queue, visited, endId, n, cap) ==
    IF Len(queue) = 0 \/ n > cap THEN n
    ELSE LET path == Head(queue)
             personId == path[Len(path)]
         IN IF personId = endId THEN n + 1
            ELSE LET e == Expand(path, Neighbors(s, 1, personId), 1, Tail(queue), visited)
                 IN BfsIterations(s, e.queue, e.visited, endId, n + 1, cap)

\* C29: getFamilyTree with no rootId terminates on every table, one whose
\* parentId links form a cycle included: a row on a cycle is never a root
\* candidate and is never reached through children from a candidate, so
\* countNodes recurses no deeper than the number of rows and counts each row
\* it reaches once; and the loop of findRelationshipPath takes at most one
\* path per id off its queue.
C29_TraversalsTerminate ==
    /\ \A c \in Members(PotentialRoots(store)) :
          /\ c \notin OnCycle(store)
          /\ Reach(store, {c}, {}) \cap OnCycle(store) = {}
          /\ CountWithin(store, c, Len(store)) = Cardinality(Reach(store, {c}, {}))
          /\ CountNodes(store, c) = CountWithin(store, c, Len(store))
    /\ \A a \in AllIds, b \in AllIds :
          LET cap == Cardinality(Mentioned(store) \cup {a}) IN
          BfsIterations(store, << <<a>> >>, {a}, b, 0, cap) <= cap

\* The root was inferred by counting, on a table that has a parent cycle
C29_Witness ==
    /\ InferredRootFetched
    /\ OnCycle(store) # {}
    /\ Len(PotentialRoots(store)) >= 2
    /\ \E c \in Members(PotentialRoots(store)) : CountNodes(store, c) >= 2

\* ------------------------------------------------------------------------
\* Requests outside the enum
\* ------------------------------------------------------------------------

\* C30: addPerson called with a relationship that is none of Child, Spouse,
\* Sibling and Parent inserts no row and leaves the table unchanged.
C30_UnknownRelationshipAddsNothing ==
    (/\ last.op = "addPerson"
     /\ last.result = "ok"
     /\ last.args.relationship \notin KnownRelationships)
    => /\ store = last.before
       /\ ~Has(store, last.args.newId)
====
